---- MODULE Spec2Model ----
(***************************************************************************)
(* Byte-stream transcoders of td/utils/misc.cpp: hex_encode / hex_decode,  *)
(* url_encode / url_decode / url_decode_inplace and the run codecs         *)
(* zero_encode / zero_decode / zero_one_encode / zero_one_decode.          *)
(*                                                                         *)
(* A byte is a number in 0..255 (the bit pattern of the char), a buffer is *)
(* a sequence of bytes.  Loop indexes are 0-based as in the source; At     *)
(* reads position i of a buffer.  Every loop iteration is one action.      *)
(***************************************************************************)
EXTENDS Integers, Sequences, FiniteSets

\* ---------------------------------------------------------------- bounds
MaxHexLen == 3
MaxHexStrLen == 4
MaxUrlLen == 4
MaxChunks == 3
MaxDecLen == 4

\* ------------------------------------------------------- program constants
\* the cap of one run counter in x_encode
MaxRun == 250
\* the value hex_to_int returns for a character that is no hex digit
NotHex == 16
\* the largest value of an unsigned char
UCharMax == 255

\* ---------------------------------------------------------------- helpers
At(buf, k) == buf[k + 1]

\* k copies of c: string(k, c)
Rep(c, k) == [j \in 1..k |-> c]

RECURSIVE SeqsUpTo(_, _)
SeqsUpTo(S, k) ==
  IF k = 0 THEN {<<>>}
  ELSE LET shorter == SeqsUpTo(S, k - 1)
       IN  shorter \cup {Append(q, c) : q \in {r \in shorter : Len(r) = k - 1}, c \in S}

is_digit(c) == c \in 48..57
is_alpha(c) == c \in 65..90 \/ c \in 97..122
is_alnum(c) == is_alpha(c) \/ is_digit(c)

hex_to_int(c) ==
  IF is_digit(c) THEN c - 48
  ELSE IF c \in 97..102 THEN c - 97 + 10
  ELSE IF c \in 65..70 THEN c - 65 + 10
  ELSE NotHex

\* "0123456789abcdef" and "0123456789ABCDEF"
hex_lower == <<48, 49, 50, 51, 52, 53, 54, 55, 56, 57, 97, 98, 99, 100, 101, 102>>
hex_upper == <<48, 49, 50, 51, 52, 53, 54, 55, 56, 57, 65, 66, 67, 68, 69, 70>>

\* static_cast<char> of an int: the low eight bits
to_char(v) == v % 256

\* ----------------------------------------------------------------- inputs
\* bytes 0x00 0x0f 0x80 0xab 0xff
HexBytes == {0, 15, 128, 171, 255}
\* characters '1' 'F' 'a' 'g'
HexChars == {49, 70, 97, 103}
\* characters '%' '+' '2' 'F' 'g' and byte 0xc8
UrlChars == {37, 43, 50, 70, 103, 200}
\* data bytes of the run codecs and the lengths of the blocks an input is made of
RunBytes == {0, 1, 255}
BlockLens == {1, 2, 3, 50, MaxRun}
\* bytes of an arbitrary stream handed to the run decoders
DecBytes == {0, 2, 251, 255}

\* the two predicates handed to x_encode / x_decode
is_zero(c) == c = 0

is_zero_or_one(c) == c = 0 \/ c = 255

apply(pred, c) == IF pred = "is_zero" THEN is_zero(c) ELSE is_zero_or_one(c)

\* one block of an input: a single byte, or a longer run of a byte the predicate matches
Blocks(pred) ==
  {b \in {Rep(c, l) : c \in RunBytes, l \in BlockLens} : Len(b) = 1 \/ apply(pred, b[1])}

RECURSIVE BlocksUpTo(_, _)
BlocksUpTo(pred, k) ==
  IF k = 0 THEN {<<>>}
  ELSE LET shorter == BlocksUpTo(pred, k - 1)
       IN  shorter \cup {q \o b : q \in shorter, b \in Blocks(pred)}

HexScenarios == {"hex_roundtrip", "hex_decode"}
UrlScenarios == {"url_roundtrip", "url_decode"}
RunScenarios == {"run_roundtrip", "run_decode"}

VARIABLES
  scenario,   \* which sequence of calls the caller makes
  pc,         \* the loop or entry point being executed
  data,       \* the caller's buffer
  f,          \* the sentinel predicate of the run codec in use
  i,          \* loop index of hex_encode, hex_decode, url_encode, x_encode, x_decode
  res,        \* local res of hex_encode, x_encode, x_decode
  hex,        \* argument of hex_decode
  result,     \* local result of hex_decode and of url_encode
  ret,        \* value returned by hex_decode
  length,     \* local length of url_encode
  from,       \* argument from of url_decode
  to,         \* argument to of url_decode
  from_i,     \* loop index of url_decode
  to_i,       \* write index of url_decode
  decode_plus_sign_as_space,
  inplace,    \* from and to are the same memory (the call made by url_decode_inplace)
  decoded,    \* string returned by the owned-result url_decode
  str,        \* slice returned by url_decode_inplace
  s           \* argument s of x_encode / x_decode

vars == <<scenario, pc, data, f, i, res, hex, result, ret, length, from, to,
          from_i, to_i, decode_plus_sign_as_space, inplace, decoded, str, s>>

hexVars == <<hex, result, ret>>
urlVars == <<length, from, to, from_i, to_i, decode_plus_sign_as_space, inplace, decoded, str>>
runVars == <<f, s>>

NoRet == [ok |-> FALSE, error |-> "none"]

InitLocals ==
  /\ i = 0 /\ res = <<>> /\ hex = <<>> /\ result = <<>> /\ ret = NoRet
  /\ length = 0 /\ from = <<>> /\ to = <<>> /\ from_i = 0 /\ to_i = 0
  /\ inplace = FALSE /\ decoded = <<>> /\ str = <<>>
  /\ s = IF scenario \in RunScenarios THEN data ELSE <<>>

InitHexRoundtrip ==
  /\ scenario = "hex_roundtrip" /\ pc = "hex_encode"
  /\ data \in SeqsUpTo(HexBytes, MaxHexLen)
  /\ f = "none" /\ decode_plus_sign_as_space = FALSE

InitHexDecode ==
  /\ scenario = "hex_decode" /\ pc = "hex_decode_begin"
  /\ data \in SeqsUpTo(HexChars, MaxHexStrLen)
  /\ f = "none" /\ decode_plus_sign_as_space = FALSE

InitUrlRoundtrip ==
  /\ scenario = "url_roundtrip" /\ pc = "url_encode_begin"
  /\ data \in SeqsUpTo(UrlChars, MaxUrlLen)
  /\ f = "none" /\ decode_plus_sign_as_space = FALSE

InitUrlDecode ==
  /\ scenario = "url_decode" /\ pc = "url_decode_begin"
  /\ data \in SeqsUpTo(UrlChars, MaxUrlLen)
  /\ f = "none" /\ decode_plus_sign_as_space \in BOOLEAN

InitRunRoundtrip ==
  /\ scenario = "run_roundtrip" /\ pc = "x_encode"
  /\ f \in {"is_zero", "is_zero_or_one"}
  /\ data \in BlocksUpTo(f, MaxChunks)
  /\ decode_plus_sign_as_space = FALSE

InitRunDecode ==
  /\ scenario = "run_decode" /\ pc = "x_decode"
  /\ data \in SeqsUpTo(DecBytes, MaxDecLen)
  /\ f \in {"is_zero", "is_zero_or_one"} /\ decode_plus_sign_as_space = FALSE

\* ------------------------------------------------------------- hex codec
\* hex_encode writing the low nibble first
hex_encode_pair_low_first(c) == <<hex_lower[(c % 16) + 1], hex_lower[(c \div 16) + 1]>>

hex_encode_pair(c) == <<hex_lower[(c \div 16) + 1], hex_lower[(c % 16) + 1]>>

hex_encode_step ==
  /\ pc = "hex_encode" /\ i < Len(data)
  /\ res' = res \o hex_encode_pair(At(data, i))
  /\ i' = i + 1
  /\ UNCHANGED <<scenario, pc, data, hexVars, urlVars, runVars>>

\* hex_encode returns res and the caller hands it to hex_decode
hex_encode_return ==
  /\ pc = "hex_encode" /\ i = Len(data)
  /\ pc' = "hex_decode_begin"
  /\ UNCHANGED <<scenario, data, i, res, hexVars, urlVars, runVars>>

hex_decode_arg == IF scenario = "hex_roundtrip" THEN res ELSE data

hex_decode_wrong_length ==
  /\ pc = "hex_decode_begin" /\ Len(hex_decode_arg) % 2 # 0
  /\ hex' = hex_decode_arg
  /\ ret' = [ok |-> FALSE, error |-> "Wrong hex string length"]
  /\ pc' = "done"
  /\ UNCHANGED <<scenario, data, i, res, result, urlVars, runVars>>

hex_decode_begin ==
  /\ pc = "hex_decode_begin" /\ Len(hex_decode_arg) % 2 = 0
  /\ hex' = hex_decode_arg
  /\ result' = Rep(0, Len(hex_decode_arg) \div 2)
  /\ i' = 0
  /\ pc' = "hex_decode"
  /\ UNCHANGED <<scenario, data, res, ret, urlVars, runVars>>

hex_decode_byte(high, low) == to_char(high * 16 + low)

\* hex_decode testing only the first character of a pair
is_wrong_pair_high_only(high, low) == high = NotHex

\* the test that makes hex_decode give up on a pair of characters
is_wrong_pair(high, low) == high = NotHex \/ low = NotHex

hex_decode_step ==
  /\ pc = "hex_decode" /\ i < Len(result)
  /\ LET high == hex_to_int(At(hex, i + i))
         low == hex_to_int(At(hex, i + i + 1))
     IN  /\ ~is_wrong_pair(high, low)
         /\ result' = [result EXCEPT ![i + 1] = hex_decode_byte(high, low)]
  /\ i' = i + 1
  /\ UNCHANGED <<scenario, pc, data, res, hex, ret, urlVars, runVars>>

hex_decode_wrong_char ==
  /\ pc = "hex_decode" /\ i < Len(result)
  /\ LET high == hex_to_int(At(hex, i + i))
         low == hex_to_int(At(hex, i + i + 1))
     IN  is_wrong_pair(high, low)
  /\ ret' = [ok |-> FALSE, error |-> "Wrong hex string"]
  /\ pc' = "done"
  /\ UNCHANGED <<scenario, data, i, res, hex, result, urlVars, runVars>>

hex_decode_return ==
  /\ pc = "hex_decode" /\ i = Len(result)
  /\ ret' = [ok |-> TRUE, value |-> result]
  /\ pc' = "done"
  /\ UNCHANGED <<scenario, data, i, res, hex, result, urlVars, runVars>>

\* --------------------------------------------------------- percent codec
is_url_char(c) == is_alnum(c) \/ c = 45 \/ c = 46 \/ c = 95 \/ c = 126

\* url_encode taking one off the length for an unreserved byte instead of two
url_encode_length_minus_one(d) ==
  3 * Len(d) - Cardinality({k \in 1..Len(d) : is_url_char(d[k])})

\* length after the first loop of url_encode
url_encode_length(d) ==
  3 * Len(d) - 2 * Cardinality({k \in 1..Len(d) : is_url_char(d[k])})

url_encode_char(c) ==
  IF is_url_char(c) THEN <<c>>
  ELSE <<37, hex_upper[(c \div 16) + 1], hex_upper[(c % 16) + 1]>>

\* the string url_encode has returned: data.str() on the early return, result otherwise
url_encode_result == IF length = Len(data) THEN data ELSE result

url_encode_begin ==
  /\ pc = "url_encode_begin"
  /\ length' = url_encode_length(data)
  /\ result' = <<>>
  /\ i' = 0
  /\ pc' = IF url_encode_length(data) = Len(data) THEN "url_decode_begin" ELSE "url_encode"
  /\ UNCHANGED <<scenario, data, res, hex, ret, from, to, from_i, to_i,
                 decode_plus_sign_as_space, inplace, decoded, str, runVars>>

url_encode_step ==
  /\ pc = "url_encode" /\ i < Len(data)
  /\ result' = result \o url_encode_char(At(data, i))
  /\ i' = i + 1
  /\ UNCHANGED <<scenario, pc, data, res, hex, ret, urlVars, runVars>>

\* CHECK(result.size() == length), then the caller hands the string to url_decode
url_encode_return ==
  /\ pc = "url_encode" /\ i = Len(data)
  /\ pc' = IF Len(result) = length THEN "url_decode_begin" ELSE "abort"
  /\ UNCHANGED <<scenario, data, i, res, hexVars, urlVars, runVars>>

url_decode_arg == IF scenario = "url_roundtrip" THEN url_encode_result ELSE data

\* string url_decode(Slice, bool): to.resize(from.size()), then the scan starts
url_decode_begin ==
  /\ pc = "url_decode_begin"
  /\ from' = url_decode_arg
  /\ to' = Rep(0, Len(url_decode_arg))
  /\ inplace' = FALSE
  /\ to_i' = 0
  /\ from_i' = 0
  /\ pc' = IF Len(to') >= Len(from') THEN "url_decode" ELSE "abort"
  /\ UNCHANGED <<scenario, data, i, res, hexVars, length, decode_plus_sign_as_space,
                 decoded, str, runVars>>

\* url_decode_inplace: the scan is started with the same buffer as from and to
url_decode_inplace_begin ==
  /\ pc = "url_decode_inplace_begin"
  /\ from' = data
  /\ to' = data
  /\ inplace' = TRUE
  /\ to_i' = 0
  /\ from_i' = 0
  /\ pc' = IF Len(to') >= Len(from') THEN "url_decode" ELSE "abort"
  /\ UNCHANGED <<scenario, data, i, res, hexVars, length, decode_plus_sign_as_space,
                 decoded, str, runVars>>

\* url_decode asking for one more character after the triplet
is_escape_strict(buf, k) ==
  /\ At(buf, k) = 37
  /\ k + 3 < Len(buf)
  /\ hex_to_int(At(buf, k + 1)) < 16
  /\ hex_to_int(At(buf, k + 2)) < 16

\* url_decode testing only the first digit of the triplet
is_escape_high_only(buf, k) ==
  /\ At(buf, k) = 37
  /\ k + 2 < Len(buf)
  /\ hex_to_int(At(buf, k + 1)) < 16

\* the condition under which the scan decodes a %XX triplet at from_i
is_escape(buf, k) ==
  /\ At(buf, k) = 37
  /\ k + 2 < Len(buf)
  /\ hex_to_int(At(buf, k + 1)) < 16
  /\ hex_to_int(At(buf, k + 2)) < 16

url_decode_literal(c, plus) == IF plus /\ c = 43 THEN 32 ELSE c

\* a write through to; it lands in from as well when both are the same memory
url_decode_write(v) ==
  /\ to' = [to EXCEPT ![to_i + 1] = v]
  /\ from' = IF inplace THEN [to EXCEPT ![to_i + 1] = v] ELSE from
  /\ to_i' = to_i + 1

url_decode_escape ==
  /\ pc = "url_decode" /\ from_i < Len(from)
  /\ is_escape(from, from_i)
  /\ url_decode_write(to_char(hex_to_int(At(from, from_i + 1)) * 16
                              + hex_to_int(At(from, from_i + 2))))
  /\ from_i' = from_i + 3
  /\ UNCHANGED <<scenario, pc, data, i, res, hexVars, length, decode_plus_sign_as_space,
                 inplace, decoded, str, runVars>>

url_decode_copy ==
  /\ pc = "url_decode" /\ from_i < Len(from)
  /\ ~is_escape(from, from_i)
  /\ url_decode_write(url_decode_literal(At(from, from_i), decode_plus_sign_as_space))
  /\ from_i' = from_i + 1
  /\ UNCHANGED <<scenario, pc, data, i, res, hexVars, length, decode_plus_sign_as_space,
                 inplace, decoded, str, runVars>>

\* to.resize(url_decode(from, to, ...)); return to
url_decode_return ==
  /\ pc = "url_decode" /\ ~(from_i < Len(from)) /\ ~inplace
  /\ decoded' = SubSeq(to, 1, to_i)
  /\ pc' = IF scenario = "url_decode" THEN "url_decode_inplace_begin" ELSE "done"
  /\ UNCHANGED <<scenario, data, i, res, hexVars, length, from, to, from_i, to_i,
                 decode_plus_sign_as_space, inplace, str, runVars>>

\* url_decode_inplace returning str without truncating it
url_decode_inplace_return_no_truncate ==
  /\ pc = "url_decode" /\ ~(from_i < Len(from)) /\ inplace
  /\ str' = to
  /\ pc' = "done"
  /\ UNCHANGED <<scenario, data, i, res, hexVars, length, from, to, from_i, to_i,
                 decode_plus_sign_as_space, inplace, decoded, runVars>>

\* str.truncate(result_size); return str
url_decode_inplace_return ==
  /\ pc = "url_decode" /\ ~(from_i < Len(from)) /\ inplace
  /\ str' = SubSeq(to, 1, to_i)
  /\ pc' = "done"
  /\ UNCHANGED <<scenario, data, i, res, hexVars, length, from, to, from_i, to_i,
                 decode_plus_sign_as_space, inplace, decoded, runVars>>

\* ------------------------------------------------------------- run codecs
\* the call f(c) of the template parameter
call_f(c) == apply(f, c)

\* x_encode counting up to the largest unsigned char
run_continues_cap_255(buf, k, cnt) ==
  cnt < UCharMax /\ k + cnt < Len(buf) /\ At(buf, k + cnt) = At(buf, k)

\* x_encode extending a run over any byte the predicate matches
run_continues_any_sentinel(buf, k, cnt) ==
  cnt < MaxRun /\ k + cnt < Len(buf) /\ call_f(At(buf, k + cnt))

\* the condition of the while loop of x_encode
run_continues(buf, k, cnt) ==
  cnt < MaxRun /\ k + cnt < Len(buf) /\ At(buf, k + cnt) = At(buf, k)

\* cnt when the while loop ends: the first value from 1 up at which its condition fails
count_run(buf, k) ==
  CHOOSE cnt \in 1..UCharMax :
    /\ ~run_continues(buf, k, cnt)
    /\ \A c \in 1..(cnt - 1) : run_continues(buf, k, c)

x_encode_copy ==
  /\ pc = "x_encode" /\ i < Len(s)
  /\ ~call_f(At(s, i))
  /\ res' = Append(res, At(s, i))
  /\ i' = i + 1
  /\ UNCHANGED <<scenario, pc, data, hexVars, urlVars, runVars>>

\* x_encode adding cnt to i, forgetting the increment of the for loop
x_encode_run_skip ==
  /\ pc = "x_encode" /\ i < Len(s)
  /\ call_f(At(s, i))
  /\ LET cnt == count_run(s, i)
     IN  /\ res' = res \o <<At(s, i), to_char(cnt)>>
         /\ i' = i + cnt + 1
  /\ UNCHANGED <<scenario, pc, data, hexVars, urlVars, runVars>>

x_encode_run ==
  /\ pc = "x_encode" /\ i < Len(s)
  /\ call_f(At(s, i))
  /\ LET cnt == count_run(s, i)
     IN  /\ res' = res \o <<At(s, i), to_char(cnt)>>
         /\ i' = i + cnt
  /\ UNCHANGED <<scenario, pc, data, hexVars, urlVars, runVars>>

\* x_encode returns res and the caller hands it to x_decode
x_encode_return ==
  /\ pc = "x_encode" /\ ~(i < Len(s))
  /\ s' = res
  /\ res' = <<>>
  /\ i' = 0
  /\ pc' = "x_decode"
  /\ UNCHANGED <<scenario, data, f, hexVars, urlVars>>

\* x_decode not stepping over the count byte
x_decode_run_no_skip ==
  /\ pc = "x_decode" /\ i < Len(s)
  /\ i + 1 < Len(s) /\ call_f(At(s, i))
  /\ res' = res \o Rep(At(s, i), At(s, i + 1))
  /\ i' = i + 1
  /\ UNCHANGED <<scenario, pc, data, hexVars, urlVars, runVars>>

x_decode_run ==
  /\ pc = "x_decode" /\ i < Len(s)
  /\ i + 1 < Len(s) /\ call_f(At(s, i))
  /\ res' = res \o Rep(At(s, i), At(s, i + 1))
  /\ i' = i + 2
  /\ UNCHANGED <<scenario, pc, data, hexVars, urlVars, runVars>>

x_decode_copy ==
  /\ pc = "x_decode" /\ i < Len(s)
  /\ ~(i + 1 < Len(s) /\ call_f(At(s, i)))
  /\ res' = Append(res, At(s, i))
  /\ i' = i + 1
  /\ UNCHANGED <<scenario, pc, data, hexVars, urlVars, runVars>>

x_decode_return ==
  /\ pc = "x_decode" /\ ~(i < Len(s))
  /\ pc' = "done"
  /\ UNCHANGED <<scenario, data, i, res, hexVars, urlVars, runVars>>

Init ==
  /\ \/ InitHexRoundtrip
     \/ InitHexDecode
     \/ InitUrlRoundtrip
     \/ InitUrlDecode
     \/ InitRunRoundtrip
     \/ InitRunDecode
  /\ InitLocals

Next ==
  \/ hex_encode_step
  \/ hex_encode_return
  \/ hex_decode_wrong_length
  \/ hex_decode_begin
  \/ hex_decode_step
  \/ hex_decode_wrong_char
  \/ hex_decode_return
  \/ url_encode_begin
  \/ url_encode_step
  \/ url_encode_return
  \/ url_decode_begin
  \/ url_decode_inplace_begin
  \/ url_decode_escape
  \/ url_decode_copy
  \/ url_decode_return
  \/ url_decode_inplace_return
  \/ x_encode_copy
  \/ x_encode_run
  \/ x_encode_return
  \/ x_decode_run
  \/ x_decode_copy
  \/ x_decode_return

Spec == Init /\ [][Next]_vars

\* ================================================================ claims
\* the character classes the properties speak of
HexDigitChars == (48..57) \cup (65..70) \cup (97..102)
UpperHexChars == (48..57) \cup (65..70)
UnreservedChars == (48..57) \cup (65..90) \cup (97..122) \cup {45, 46, 95, 126}

\* the value of a hex digit character
HexVal(c) == IF c \in 48..57 THEN c - 48 ELSE IF c \in 65..70 THEN c - 55 ELSE c - 87

\* number of positions of buf among the first k that hold a byte of the set S
CountIn(buf, k, S) == Cardinality({j \in 1..k : buf[j] \in S})

\* buf holds a run of more than MaxRun bytes v
HasLongRun(buf, v) ==
  \E k \in 1..(Len(buf) - MaxRun) : \A j \in k..(k + MaxRun) : buf[j] = v

\* C1: for every buffer b, zero_decode(zero_encode(b)) = b and
\* zero_one_decode(zero_one_encode(b)) = b, also when b holds a run of more than 250
\* sentinel bytes or ends in a sentinel byte.
C1_RunRoundTrip ==
  (scenario = "run_roundtrip" /\ pc = "done") => res = data

C1_Witness ==
  /\ scenario = "run_roundtrip" /\ pc = "done" /\ f = "is_zero_or_one"
  /\ HasLongRun(data, 255)
  /\ data[Len(data)] = 0
  /\ res = data

\* C2: for every buffer b, url_decode(url_encode(b), false) = b; a %XX triplet that ends
\* at the last byte of the encoded text is decoded, and '%' and '+' in b survive.
C2_UrlRoundTrip ==
  (scenario = "url_roundtrip" /\ pc = "done") => decoded = data

C2_Witness ==
  /\ scenario = "url_roundtrip" /\ pc = "done"
  /\ data = <<50, 37, 43>>
  /\ from = <<50, 37, 50, 53, 37, 50, 66>>
  /\ decoded = data

\* C3: hex_encode(b) has length 2 * len(b), each byte is written high nibble first, and
\* hex_decode(hex_encode(b)) succeeds and returns b, for all byte values 0..255.
C3_HexRoundTrip ==
  scenario = "hex_roundtrip" =>
    /\ pc = "hex_encode" => Len(res) = 2 * i
    /\ pc # "hex_encode" =>
         /\ Len(res) = 2 * Len(data)
         /\ \A k \in 1..Len(data) :
              /\ res[2 * k - 1] \in HexDigitChars /\ res[2 * k] \in HexDigitChars
              /\ HexVal(res[2 * k - 1]) = data[k] \div 16
              /\ HexVal(res[2 * k]) = data[k] % 16
    /\ pc = "done" => ret = [ok |-> TRUE, value |-> data]

C3_Witness ==
  /\ scenario = "hex_roundtrip" /\ pc = "done"
  /\ data = <<171, 128, 15>>
  /\ res = <<97, 98, 56, 48, 48, 102>>
  /\ ret = [ok |-> TRUE, value |-> data]

\* C4: hex_decode fails with the length error on every odd-length input, with the
\* invalid-character error on every even-length input that holds a character outside
\* [0-9a-fA-F], and otherwise succeeds with exactly len/2 bytes; an error carries no
\* partial result.
C4_HexDecodeErrors ==
  (scenario = "hex_decode" /\ pc = "done") =>
    IF Len(data) % 2 # 0
    THEN ret = [ok |-> FALSE, error |-> "Wrong hex string length"]
    ELSE IF \E k \in 1..Len(data) : data[k] \notin HexDigitChars
    THEN ret = [ok |-> FALSE, error |-> "Wrong hex string"]
    ELSE /\ DOMAIN ret = {"ok", "value"}
         /\ ret.ok
         /\ Len(ret.value) = Len(data) \div 2

C4_Witness ==
  /\ scenario = "hex_decode" /\ pc = "done"
  /\ data = <<49, 97, 49, 103>>
  /\ result = <<26, 0>>
  /\ ret = [ok |-> FALSE, error |-> "Wrong hex string"]

\* the output of x_encode so far: res while it runs, the argument of x_decode afterwards
Encoded == IF pc = "x_encode" THEN res ELSE s

\* the input bytes x_encode has consumed so far
Consumed == IF pc = "x_encode" THEN i ELSE Len(data)

\* the encoded stream read as units from position k on: a byte the predicate matches
\* takes the next byte as its count, any other byte stands alone (count 0: none)
RECURSIVE Units(_, _, _)
Units(pred, enc, k) ==
  IF k > Len(enc) THEN <<>>
  ELSE IF apply(pred, enc[k])
  THEN IF k + 1 > Len(enc)
       THEN <<[byte |-> enc[k], cnt |-> -1]>>
       ELSE <<[byte |-> enc[k], cnt |-> enc[k + 1]]>> \o Units(pred, enc, k + 2)
  ELSE <<[byte |-> enc[k], cnt |-> 0]>> \o Units(pred, enc, k + 1)

RECURSIVE SumCnt(_, _)
SumCnt(units, v) ==
  IF units = <<>> THEN 0
  ELSE (IF Head(units).byte = v THEN Head(units).cnt ELSE 0) + SumCnt(Tail(units), v)

\* C5: in the output of zero_encode / zero_one_encode every sentinel data byte is
\* followed by exactly one count byte in 1..250, no other data byte is followed by a
\* count byte, and the counts of the pairs of a sentinel value sum to the number of
\* bytes of that value encoded, so a run of more than 250 is split; 300 zero bytes
\* become (0x00,250),(0x00,50).
C5_EncodedForm ==
  scenario = "run_roundtrip" =>
    LET units == Units(f, Encoded, 1)
    IN  /\ \A k \in 1..Len(units) :
             IF apply(f, units[k].byte)
             THEN units[k].cnt \in 1..MaxRun
             ELSE units[k].cnt = 0
        /\ \A v \in RunBytes :
             IF apply(f, v)
             THEN SumCnt(units, v) = CountIn(data, Consumed, {v})
             ELSE Cardinality({k \in 1..Len(units) : units[k].byte = v})
                    = CountIn(data, Consumed, {v})
        /\ (pc # "x_encode" /\ data = Rep(0, 300)) => s = <<0, 250, 0, 50>>

C5_Witness ==
  /\ scenario = "run_roundtrip" /\ pc = "x_decode" /\ f = "is_zero"
  /\ data = Rep(0, 300)
  /\ s = <<0, 250, 0, 50>>

\* C6: url_decode never fails; a '%' at source position i becomes one byte and the scan
\* advances 3 positions exactly when the two following characters exist inside the
\* input and are both hex digits; any other '%' is copied and the scan advances by one;
\* with decode_plus_sign_as_space a '+' becomes a space; every other byte is copied.
C6_StepRule ==
  (pc = "url_decode" /\ from_i < Len(from)) =>
    LET c == from[from_i + 1]
        esc == /\ c = 37
               /\ from_i + 2 <= Len(from) - 1
               /\ from[from_i + 2] \in HexDigitChars
               /\ from[from_i + 3] \in HexDigitChars
    IN  /\ pc' \in {"url_decode", "done", "url_decode_inplace_begin"}
        /\ to_i' = to_i + 1
        /\ Len(to') = Len(to)
        /\ \A k \in 1..Len(to) : k # to_i + 1 => to'[k] = to[k]
        /\ IF esc
           THEN /\ from_i' = from_i + 3
                /\ to'[to_i + 1] = HexVal(from[from_i + 2]) * 16 + HexVal(from[from_i + 3])
           ELSE /\ from_i' = from_i + 1
                /\ to'[to_i + 1] = IF decode_plus_sign_as_space /\ c = 43 THEN 32 ELSE c

C6_UrlDecodeTotal ==
  /\ [][C6_StepRule]_vars
  /\ [](scenario \in UrlScenarios => pc # "abort")
  /\ []((scenario = "url_decode" /\ data = <<37, 50>> /\ pc = "done") =>
          (decoded = <<37, 50>> /\ str = <<37, 50>>))

C6_Witness ==
  /\ scenario = "url_decode" /\ pc = "done" /\ decode_plus_sign_as_space
  /\ data = <<37, 50, 103, 43>>
  /\ decoded = <<37, 50, 103, 32>>

\* C7: in zero_decode / zero_one_decode a sentinel byte that is not the last input byte
\* takes the next byte as a count c, c copies of the sentinel are appended and the scan
\* advances past both bytes; a sentinel byte that is the last input byte is appended once;
\* any other byte is appended as it is; the decoder never fails.
C7_StepRule ==
  (pc = "x_decode" /\ i < Len(s)) =>
    LET b == s[i + 1]
    IN  /\ pc' \in {"x_decode", "done"}
        /\ IF apply(f, b) /\ i + 1 # Len(s)
           THEN /\ Len(res') = Len(res) + s[i + 2]
                /\ SubSeq(res', 1, Len(res)) = res
                /\ \A k \in (Len(res) + 1)..Len(res') : res'[k] = b
                /\ i' = i + 2
           ELSE /\ res' = Append(res, b)
                /\ i' = i + 1

C7_DecodeRule ==
  /\ [][C7_StepRule]_vars
  /\ [](scenario \in RunScenarios => pc # "abort")

C7_Witness ==
  /\ scenario = "run_decode" /\ pc = "done" /\ f = "is_zero_or_one"
  /\ data = <<255, 2, 2, 0>>
  /\ res = <<255, 255, 2, 0>>

\* C8: zero_one_encode never merges a run of 0x00 with a run of 0xFF: a pair covers only
\* consecutive bytes equal to the byte that started the run; 00 00 FF FF FF encodes to
\* (00,2)(FF,3) and decodes back; zero_encode writes 0xFF as a plain byte with no count.
C8_StepRule ==
  (pc = "x_encode" /\ i < Len(s)) =>
    LET b == s[i + 1]
    IN  IF apply(f, b)
        THEN \E cnt \in 1..MaxRun :
               /\ res' = res \o <<b, cnt>>
               /\ i' = i + cnt
               /\ i + cnt <= Len(s)
               /\ \A k \in (i + 1)..(i + cnt) : s[k] = b
        ELSE res' = Append(res, b) /\ i' = i + 1

C8_NoMerge ==
  /\ [][C8_StepRule]_vars
  /\ []((scenario = "run_roundtrip" /\ f = "is_zero_or_one" /\ data = <<0, 0, 255, 255, 255>>) =>
          /\ pc # "x_encode" => s = <<0, 2, 255, 3>>
          /\ pc = "done" => res = data)
  /\ []((scenario = "run_roundtrip" /\ f = "is_zero" /\ data = <<0, 0, 255, 255, 255>>) =>
          (pc # "x_encode" => s = <<0, 2, 255, 255, 255>>))

C8_Witness ==
  /\ scenario = "run_roundtrip" /\ pc = "done" /\ f = "is_zero_or_one"
  /\ data = <<0, 0, 255, 255, 255>>
  /\ s = <<0, 2, 255, 3>>
  /\ res = data

\* position before the encoding of data[k] in the output of url_encode
EncOffset(k) == 3 * (k - 1) - 2 * CountIn(data, k - 1, UnreservedChars)

\* C9: the length url_encode computes first, 3*N - 2*(number of unreserved bytes), is the
\* length of the string it builds, so its CHECK never fails; an input of unreserved bytes
\* only (the empty one too) is returned unchanged; every other byte becomes '%' and two
\* uppercase hex digits.
C9_UrlEncode ==
  scenario = "url_roundtrip" =>
    /\ pc # "abort"
    /\ pc \notin {"url_encode_begin", "url_encode"} =>
         LET enc == url_encode_result
         IN  /\ length = 3 * Len(data) - 2 * CountIn(data, Len(data), UnreservedChars)
             /\ Len(enc) = length
             /\ (\A k \in 1..Len(data) : data[k] \in UnreservedChars) => enc = data
             /\ \A k \in 1..Len(data) :
                  IF data[k] \in UnreservedChars
                  THEN enc[EncOffset(k) + 1] = data[k]
                  ELSE /\ enc[EncOffset(k) + 1] = 37
                       /\ enc[EncOffset(k) + 2] \in UpperHexChars
                       /\ enc[EncOffset(k) + 3] \in UpperHexChars
                       /\ HexVal(enc[EncOffset(k) + 2]) * 16 + HexVal(enc[EncOffset(k) + 3])
                            = data[k]

C9_Witness ==
  /\ scenario = "url_roundtrip" /\ pc = "url_decode_begin"
  /\ data = <<200, 50, 37>>
  /\ result = <<37, 67, 56, 50, 37, 50, 53>>
  /\ length = 7

\* C10: at every step of the url_decode scan the write index is at most the read index,
\* so the output is no longer than the input and every write lands inside a destination
\* as large as the input; url_decode_inplace never overwrites a source byte it has not
\* read and returns the same bytes as url_decode into a separate buffer.
C10_WriteBehindRead ==
  scenario \in UrlScenarios =>
    /\ pc = "url_decode" =>
         /\ to_i <= from_i
         /\ from_i <= Len(from)
         /\ Len(to) >= Len(from)
         /\ from_i < Len(from) => to_i < Len(to)
         /\ inplace => \A k \in (from_i + 1)..Len(from) : from[k] = data[k]
    /\ pc \in {"url_decode_inplace_begin", "done"} => Len(decoded) <= Len(from)
    /\ (scenario = "url_decode" /\ pc = "done") => (str = decoded /\ Len(str) <= Len(data))

C10_Witness ==
  /\ scenario = "url_decode" /\ pc = "done" /\ inplace /\ decode_plus_sign_as_space
  /\ data = <<37, 50, 70, 43>>
  /\ decoded = <<47, 32>>
  /\ str = <<47, 32>>
====
